---- MODULE Spec2Model ----
(***************************************************************************)
(* Truck-tracking store (useTruckStore), its selectors, the simulation     *)
(* timer of GoogleMapsComponent and the movement simulator of              *)
(* utils/realisticSimulation.ts.                                           *)
(*                                                                         *)
(* Numbers.  JavaScript numbers are modelled in fixed point:               *)
(*   angles (lat, lng)  in 1e-4 degree        (24.7136 deg = 247136)       *)
(*   distances          in metres             (1 km = 1000)                *)
(*   speeds             in 1e-3 km/h          (30 km/h = 30000)            *)
(*   headings           in 1e-2 degree        (360 deg = 36000)            *)
(*   factors            in percent or per mille, as named                  *)
(*   Math.random()      in per mille of the unit interval, 0..999          *)
(* The trigonometric functions are evaluated by their Taylor polynomials   *)
(* in integer arithmetic that stays below 2^31; over the modelled region   *)
(* the distance differs from the floating-point haversine by less than     *)
(* 0.1 percent (less than 35 m below 100 km).                              *)
(***************************************************************************)
EXTENDS Integers, Sequences, FiniteSets, TLC

VARIABLES
  trucks,            \* state.trucks
  filters,           \* state.filters
  ui,                \* state.ui
  animations,        \* state.animations
  isLoading,         \* state.isLoading
  error,             \* state.error
  lastUpdate,        \* state.lastUpdate
  simulationActive,  \* GoogleMapsComponent's simulationActive; the interval exists iff TRUE
  uncaught,          \* the last exception that left a timer callback uncaught
  now,               \* Date.now(), in seconds
  lastCall,          \* the last call of the simulator: its argument and result
  steps              \* the number of simulator calls made

vars == <<trucks, filters, ui, animations, isLoading, error, lastUpdate,
          simulationActive, uncaught, now, lastCall, steps>>

\* JavaScript null / undefined
Null == "null"
Undefined == "undefined"
\* null where a record is expected (a function's "return null", a failed lookup)
NullRecord == [null |-> TRUE]
IsNull(r) == "null" \in DOMAIN r

(***************************************************************************)
(* SAUDI_HIGHWAYS: waypoints, speed limits (km/h) and terrain factors      *)
(* (percent) of the four registered highways.                              *)
(***************************************************************************)
WP(lat, lng, name) == [lat |-> lat, lng |-> lng, name |-> name]

SAUDI_HIGHWAYS ==
  [Highway_40 |->
     [waypoints |-> <<
        WP(247136, 466753, "Riyadh"),
        WP(245247, 461792, "Al-Kharj"),
        WP(241333, 458000, "Al-Aflaj"),
        WP(238859, 450218, "Al-Sulayyil"),
        WP(234924, 444267, "Wadi al-Dawasir"),
        WP(227500, 431667, "Bishah"),
        WP(219611, 416833, "Taif"),
        WP(214858, 391925, "Jeddah") >>,
      speedLimits |-> <<120, 110, 100, 90, 80, 70, 90, 80>>,
      terrainFactors |-> <<100, 95, 90, 85, 80, 70, 85, 90>>],
   Highway_50 |->
     [waypoints |-> <<
        WP(264207, 500888, "Dammam"),
        WP(254295, 495906, "Al-Hofuf"),
        WP(247136, 466753, "Riyadh"),
        WP(244539, 449658, "Al-Qassim"),
        WP(253336, 430504, "Hail"),
        WP(240889, 380617, "Yanbu") >>,
      speedLimits |-> <<120, 110, 120, 100, 90, 80>>,
      terrainFactors |-> <<100, 95, 100, 90, 85, 80>>],
   Highway_5 |->
     [waypoints |-> <<
        WP(214858, 391925, "Jeddah"),
        WP(214225, 398262, "Mecca"),
        WP(219611, 416833, "Taif"),
        WP(247136, 466753, "Riyadh"),
        WP(254295, 495906, "Al-Hofuf"),
        WP(262172, 501971, "Al-Khobar") >>,
      speedLimits |-> <<80, 70, 90, 120, 110, 100>>,
      terrainFactors |-> <<90, 70, 80, 100, 95, 100>>],
   Highway_15 |->
     [waypoints |-> <<
        WP(283998, 365700, "Tabuk"),
        WP(263336, 430504, "Hail"),
        WP(247136, 466753, "Riyadh"),
        WP(227500, 431667, "Bishah"),
        WP(182164, 425053, "Abha"),
        WP(169010, 425663, "Jazan") >>,
      speedLimits |-> <<100, 110, 120, 90, 70, 80>>,
      terrainFactors |-> <<90, 95, 100, 85, 60, 80>>] ]

\* The keys searched for in a route label by String.includes, as characters
KeyHighway50 == <<"H", "i", "g", "h", "w", "a", "y", " ", "5", "0">>
KeyHighway5 == <<"H", "i", "g", "h", "w", "a", "y", " ", "5">>
KeyHighway15 == <<"H", "i", "g", "h", "w", "a", "y", " ", "1", "5">>

\* Route labels of the modelled trucks, as characters
RouteH40 == <<"H", "i", "g", "h", "w", "a", "y", " ", "4", "0", " ", "-", " ", "W", "e", "s", "t">>
RouteH50 == <<"H", "i", "g", "h", "w", "a", "y", " ", "5", "0", " ", "-", " ", "E", "a", "s", "t">>
RouteH5 == <<"H", "i", "g", "h", "w", "a", "y", " ", "5">>
RouteH15 == <<"H", "i", "g", "h", "w", "a", "y", " ", "1", "5", " ", "N", "o", "r", "t", "h">>
RouteH55 == <<"H", "i", "g", "h", "w", "a", "y", " ", "5", "5">>
RouteH15via5 == <<"H", "i", "g", "h", "w", "a", "y", " ", "1", "5", " ", "v", "i", "a", " ", "H", "i", "g", "h", "w", "a", "y", " ", "5">>
RouteH5via50 == <<"H", "i", "g", "h", "w", "a", "y", " ", "5", " ", "t", "o", " ", "H", "i", "g", "h", "w", "a", "y", " ", "5", "0">>
RouteNone == <<"C", "o", "a", "s", "t", "a", "l", " ", "R", "o", "a", "d">>
RouteEmpty == << >>

(***************************************************************************)
(* Integer arithmetic helpers (Math.abs, Math.min, Math.max, Math.sqrt)    *)
(***************************************************************************)
Abs(x) == IF x < 0 THEN 0 - x ELSE x
Min(a, b) == IF a < b THEN a ELSE b
Max(a, b) == IF a > b THEN a ELSE b
Sign(x) == IF x < 0 THEN 0 - 1 ELSE 1

\* largest r in lo..hi with r*r <= n, by bisection (hi*hi stays below 2^31)
RECURSIVE SqrtBetween(_, _, _)
SqrtBetween(n, lo, hi) ==
  IF lo >= hi THEN lo
  ELSE LET mid == (lo + hi + 1) \div 2
       IN  IF mid * mid <= n THEN SqrtBetween(n, mid, hi)
           ELSE SqrtBetween(n, lo, mid - 1)

Sqrt(n) == SqrtBetween(n, 0, 46340)

\* an angle in 1e-4 degree, times Math.PI / 180: radians times 1e4
RadE4(a) == ((Abs(a) \div 1000) * 17453) \div 1000
            + ((Abs(a) % 1000) * 17453) \div 1000000

\* Math.cos of an angle in 1e-4 degree, times 1e4 (Taylor polynomial to x^6)
CosE4(a) ==
  LET x  == RadE4(a)
      x2 == (x * x) \div 10000
      x4 == (x2 * x2) \div 10000
      x6 == (x4 * x2) \div 10000
  IN  10000 - x2 \div 2 + x4 \div 24 - x6 \div 720

\* Math.sin of an angle in 1e-4 degree, times 1e4
SinE4(a) == Sign(a) * CosE4(900000 - Abs(a))

\* u^2 / 24 in parts per million, u an angle in 1e-4 degree taken in radians:
\* the cubic term of 2 sin(u/2) = u (1 - u^2/24) and of 2 asin(u/2) = u (1 + u^2/24)
CorrPpm(u) == ((((Abs(u) \div 100) * (Abs(u) \div 100)) \div 100) * 1269) \div 10000

\* 2 * Math.sin(u / 2), in the unit of u
TwoSinHalf(u) ==
  Sign(u) * (Abs(u) - ((Abs(u) \div 1000) * CorrPpm(u)) \div 1000)

\* Math.sin(u) for a difference of angles u, in the unit of u: u (1 - u^2/6)
SinSmall(u) ==
  Sign(u) * (Abs(u) - ((Abs(u) \div 1000) * (4 * CorrPpm(u))) \div 1000)

\* Math.sqrt(x*x + y*y), scaled down first when the squares would overflow
Hypot(x, y) ==
  LET m == Max(Abs(x), Abs(y))
      k == IF m <= 30000 THEN 1 ELSE IF m <= 240000 THEN 8 ELSE 64
  IN  k * Sqrt((Abs(x) \div k) * (Abs(x) \div k) + (Abs(y) \div k) * (Abs(y) \div k))

(***************************************************************************)
(* calculateDistance: haversine distance of two positions, in metres.      *)
(*   a = sin^2(dLat/2) + cos(lat1) cos(lat2) sin^2(dLng/2)                  *)
(*   c = 2 atan2(sqrt(a), sqrt(1-a)) = 2 asin(sqrt(a));  R = 6371 km        *)
(* 2 sqrt(a) is kept in 1e-4 degree; one such unit of arc is 11.1195 m.    *)
(***************************************************************************)
calculateDistance(pos1, pos2) ==
  LET dLat  == pos2.lat - pos1.lat
      dLng  == pos2.lng - pos1.lng
      cc    == (CosE4(pos1.lat) * CosE4(pos2.lat)) \div 10000
      sLat  == TwoSinHalf(dLat)
      sLng  == (Abs(TwoSinHalf(dLng)) * Sqrt(cc * 10000)) \div 10000
      twoRa == Hypot(sLat, sLng)
      c     == twoRa + ((twoRa \div 1000) * CorrPpm(twoRa)) \div 1000
  IN  c * 11 + (c * 1195) \div 10000

\* Math.atan of t / 1e4 for 0 <= t <= 1e4, in 1e-2 degree
\* (atan x = 45 x - x (x - 1) (14.02 + 3.80 x) degrees, error below 0.1 degree)
AtanCd(t) ==
  (4500 * t) \div 10000
  + (((t * (10000 - t)) \div 10000) * (1402 + (380 * t) \div 10000)) \div 10000

\* Math.atan2(y, x) in 1e-2 degree, in (-18000, 18000]
Atan2Cd(y, x) ==
  IF x = 0 /\ y = 0 THEN 0
  ELSE
    LET m  == Max(Abs(x), Abs(y))
        k  == IF m <= 200000 THEN 1 ELSE 10
        ay == Abs(y) \div k
        ax == Abs(x) \div k
        a1 == IF ax >= ay THEN AtanCd((ay * 10000) \div ax)
              ELSE 9000 - AtanCd((ax * 10000) \div ay)
        a2 == IF x < 0 THEN 18000 - a1 ELSE a1
    IN  IF y < 0 THEN 0 - a2 ELSE a2

(***************************************************************************)
(* calculateBearing: initial compass bearing from pos1 to pos2, in 1e-2    *)
(* degree in [0, 36000).                                                   *)
(*   y = sin(dLng) cos(lat2)                                               *)
(*   x = cos(lat1) sin(lat2) - sin(lat1) cos(lat2) cos(dLng)               *)
(*     = sin(lat2 - lat1) + 2 sin(lat1) cos(lat2) sin^2(dLng/2)            *)
(***************************************************************************)
calculateBearing(pos1, pos2) ==
  LET dLng == pos2.lng - pos1.lng
      dLat == pos2.lat - pos1.lat
      y    == Sign(dLng) * ((Abs(SinSmall(dLng)) * CosE4(pos2.lat)) \div 10000)
      h    == Abs(TwoSinHalf(dLng))
      t    == (h * RadE4(h)) \div 20000
      sc   == (SinE4(pos1.lat) * CosE4(pos2.lat)) \div 10000
      x    == SinSmall(dLat) + (t * sc) \div 10000
      bearing == Atan2Cd(y, x)
  IN  (bearing + 36000) % 36000

(***************************************************************************)
(* findNearestWaypoint: linear scan of the highway's waypoints             *)
(***************************************************************************)
\* the forEach loop from index i (1-based) on, best = [waypoint, index, distance]
RECURSIVE ScanWaypoints(_, _, _, _)
ScanWaypoints(position, wps, i, best) ==
  IF i > Len(wps) THEN best
  ELSE LET distance == calculateDistance(position, wps[i])
       IN  IF distance < best.distance
           THEN ScanWaypoints(position, wps, i + 1,
                  [waypoint |-> wps[i], index |-> i - 1, distance |-> distance])
           ELSE ScanWaypoints(position, wps, i + 1, best)

\* a faulty variant of the loop: a later waypoint at the same distance replaces the earlier
RECURSIVE ScanWaypointsLast(_, _, _, _)
ScanWaypointsLast(position, wps, i, best) ==
  IF i > Len(wps) THEN best
  ELSE LET distance == calculateDistance(position, wps[i])
       IN  IF distance <= best.distance
           THEN ScanWaypointsLast(position, wps, i + 1,
                  [waypoint |-> wps[i], index |-> i - 1, distance |-> distance])
           ELSE ScanWaypointsLast(position, wps, i + 1, best)

findNearestWaypointLast(position, highway) ==
  IF highway \notin DOMAIN SAUDI_HIGHWAYS THEN NullRecord
  ELSE LET wps == SAUDI_HIGHWAYS[highway].waypoints
       IN  ScanWaypointsLast(position, wps, 1,
             [waypoint |-> wps[1], index |-> 0,
              distance |-> calculateDistance(position, wps[1])])

\* index is the 0-based index of the code
findNearestWaypoint(position, highway) ==
  IF highway \notin DOMAIN SAUDI_HIGHWAYS THEN NullRecord
  ELSE LET wps == SAUDI_HIGHWAYS[highway].waypoints
       IN  ScanWaypoints(position, wps, 1,
             [waypoint |-> wps[1], index |-> 0,
              distance |-> calculateDistance(position, wps[1])])

(***************************************************************************)
(* simulateRealisticMovement                                               *)
(***************************************************************************)
\* String.prototype.includes on character sequences
Includes(s, sub) ==
  \E i \in 0..(Len(s) - Len(sub)) : SubSeq(s, i + 1, i + Len(sub)) = sub

\* a faulty variant of the resolution: 'Highway 5' is looked for before 'Highway 50'
ResolveHighway5First(route) ==
  IF Includes(route, KeyHighway5) THEN "Highway_5"
  ELSE IF Includes(route, KeyHighway50) THEN "Highway_50"
  ELSE IF Includes(route, KeyHighway15) THEN "Highway_15"
  ELSE "Highway_40"

\* "Determine which highway the truck is likely on"
ResolveHighway(route) ==
  IF Includes(route, KeyHighway50) THEN "Highway_50"
  ELSE IF Includes(route, KeyHighway5) THEN "Highway_5"
  ELSE IF Includes(route, KeyHighway15) THEN "Highway_15"
  ELSE "Highway_40"

\* the timestamp of new Date().toISOString(): the time of the call
IsoNow == "now-iso"

Pos(lat, lng) == [lat |-> lat, lng |-> lng, timestamp |-> IsoNow]

\* speed limits and clamp of the source, km/h
MinSpeedKmh == 30
MaxSpeedKmh == 120
DefaultSpeedLimit == 100
DefaultTerrainPct == 100

\* "Fallback to simple linear movement": r1, r2 are the two Math.random() draws
FallbackMovement(truck, r1, r2) ==
  LET currentPos  == truck.currentPosition
      destination == truck.destination
      bearing     == calculateBearing(currentPos, destination)
      distance    == calculateDistance(currentPos, destination)
      moveDistance == r1 * 2 + 1000
      newLat == currentPos.lat
                + ((destination.lat - currentPos.lat) * moveDistance) \div distance
      newLng == currentPos.lng
                + ((destination.lng - currentPos.lng) * moveDistance) \div distance
  IN  IF distance < 1000
      THEN [status |-> "completed", speed |-> 0, currentPosition |-> destination]
      ELSE [currentPosition |-> Pos(newLat, newLng),
            heading |-> bearing,
            speed |-> Min(truck.speed + (r2 - 500) * 10, MaxSpeedKmh * 1000)]

\* a faulty variant of the smoothing: the lower clamp Math.max(30, ...) is missing
NewSpeedNoFloor(currentSpeed, targetSpeed) ==
  Min(MaxSpeedKmh * 1000, currentSpeed + (targetSpeed - currentSpeed) \div 10)

\* "Gradually adjust speed towards target"
NewSpeed(currentSpeed, targetSpeed) ==
  Max(MinSpeedKmh * 1000,
      Min(MaxSpeedKmh * 1000, currentSpeed + (targetSpeed - currentSpeed) \div 10))

\* targetSpeed = speedLimit * terrainFactor * trafficFactor, r the Math.random() draw
TrafficFactor(r) == 800 + (r * 400) \div 1000

TargetSpeed(route, waypointIndex, r) ==
  LET speedLimit == IF waypointIndex + 1 \in DOMAIN route.speedLimits
                       /\ route.speedLimits[waypointIndex + 1] # 0
                    THEN route.speedLimits[waypointIndex + 1]
                    ELSE DefaultSpeedLimit
      terrainFactor == IF waypointIndex + 1 \in DOMAIN route.terrainFactors
                          /\ route.terrainFactors[waypointIndex + 1] # 0
                       THEN route.terrainFactors[waypointIndex + 1]
                       ELSE DefaultTerrainPct
  IN  (speedLimit * terrainFactor * TrafficFactor(r)) \div 100

\* a faulty variant of the step: the interpolation moves away from the waypoint
MoveTowardsAway(currentPos, nextWaypoint, moveDistance, distanceToWaypoint) ==
  Pos(currentPos.lat
        - ((nextWaypoint.lat - currentPos.lat) * moveDistance) \div distanceToWaypoint,
      currentPos.lng
        - ((nextWaypoint.lng - currentPos.lng) * moveDistance) \div distanceToWaypoint)

\* "Move towards waypoint": moveRatio = moveDistance / distanceToWaypoint
MoveTowards(currentPos, nextWaypoint, moveDistance, distanceToWaypoint) ==
  Pos(currentPos.lat
        + ((nextWaypoint.lat - currentPos.lat) * moveDistance) \div distanceToWaypoint,
      currentPos.lng
        + ((nextWaypoint.lng - currentPos.lng) * moveDistance) \div distanceToWaypoint)

\* a faulty variant of the branch: the target is the nearest waypoint itself
HighwayMovementStay(truck, route, nearestWaypoint, r1) ==
  LET currentPos == truck.currentPosition
      waypointIndex == nearestWaypoint.index
      nextWaypoint == route.waypoints[waypointIndex + 1]
      bearing == calculateBearing(currentPos, nextWaypoint)
      newSpeed == NewSpeed(truck.speed, TargetSpeed(route, waypointIndex, r1))
      distanceToWaypoint == calculateDistance(currentPos, nextWaypoint)
      moveDistance == newSpeed \div 30
  IN  IF distanceToWaypoint < moveDistance
      THEN [currentPosition |-> Pos(nextWaypoint.lat, nextWaypoint.lng),
            heading |-> bearing,
            speed |-> newSpeed]
      ELSE [currentPosition |->
              MoveTowards(currentPos, nextWaypoint, moveDistance, distanceToWaypoint),
            heading |-> bearing,
            speed |-> newSpeed]

\* a faulty variant of the branch: the heading is the bearing to the destination
HighwayMovementHome(truck, route, nearestWaypoint, r1) ==
  LET currentPos == truck.currentPosition
      waypointIndex == nearestWaypoint.index
      nextWaypointIndex == Min(waypointIndex + 1, Len(route.waypoints) - 1)
      nextWaypoint == route.waypoints[nextWaypointIndex + 1]
      bearing == calculateBearing(currentPos, truck.destination)
      newSpeed == NewSpeed(truck.speed, TargetSpeed(route, waypointIndex, r1))
      distanceToWaypoint == calculateDistance(currentPos, nextWaypoint)
      moveDistance == newSpeed \div 30
  IN  IF distanceToWaypoint < moveDistance
      THEN [currentPosition |-> Pos(nextWaypoint.lat, nextWaypoint.lng),
            heading |-> bearing,
            speed |-> newSpeed]
      ELSE [currentPosition |->
              MoveTowards(currentPos, nextWaypoint, moveDistance, distanceToWaypoint),
            heading |-> bearing,
            speed |-> newSpeed]

\* "Realistic highway-based movement"
HighwayMovement(truck, route, nearestWaypoint, r1) ==
  LET currentPos == truck.currentPosition
      waypointIndex == nearestWaypoint.index
      nextWaypointIndex == Min(waypointIndex + 1, Len(route.waypoints) - 1)
      nextWaypoint == route.waypoints[nextWaypointIndex + 1]
      bearing == calculateBearing(currentPos, nextWaypoint)
      newSpeed == NewSpeed(truck.speed, TargetSpeed(route, waypointIndex, r1))
      distanceToWaypoint == calculateDistance(currentPos, nextWaypoint)
      moveDistance == newSpeed \div 30
  IN  IF distanceToWaypoint < moveDistance
      THEN [currentPosition |-> Pos(nextWaypoint.lat, nextWaypoint.lng),
            heading |-> bearing,
            speed |-> newSpeed]
      ELSE [currentPosition |->
              MoveTowards(currentPos, nextWaypoint, moveDistance, distanceToWaypoint),
            heading |-> bearing,
            speed |-> newSpeed]

\* the Partial<Truck> returned for one tick; r1, r2 the Math.random() draws
simulateRealisticMovement(truck, r1, r2) ==
  LET highway == ResolveHighway(truck.route)
      route == IF highway \in DOMAIN SAUDI_HIGHWAYS THEN SAUDI_HIGHWAYS[highway]
               ELSE NullRecord
      nearestWaypoint == findNearestWaypoint(truck.currentPosition, highway)
  IN  IF IsNull(nearestWaypoint) \/ IsNull(route)
      THEN FallbackMovement(truck, r1, r2)
      ELSE HighwayMovement(truck, route, nearestWaypoint, r1)

\* the caller's merge of a Partial<Truck> into the truck ({...truck, ...update})
MergeUpdate(truck, update) ==
  [f \in DOMAIN truck |-> IF f \in DOMAIN update THEN update[f] ELSE truck[f]]

(***************************************************************************)
(* The truck fixture (data/saudi_trucks.json) and the inputs of the model  *)
(***************************************************************************)
Riyadh == [name |-> "Riyadh", lat |-> 247136, lng |-> 466753]
Jeddah == [name |-> "Jeddah", lat |-> 214858, lng |-> 391925]
Dammam == [name |-> "Dammam", lat |-> 264207, lng |-> 500888]

FixturePos(lat, lng) == [lat |-> lat, lng |-> lng, timestamp |-> "fixture"]

Truck(id, company, truckType, origin, destination, route, status, speed, alerts) ==
  [id |-> id, company |-> company, truckType |-> truckType,
   currentPosition |-> FixturePos(origin.lat, origin.lng),
   destination |-> destination, origin |-> origin, route |-> route,
   status |-> status, speed |-> speed, heading |-> 0, fuel |-> 75,
   lastUpdate |-> "fixture", alerts |-> alerts]

Alert(id, truckId, type, severity) ==
  [id |-> id, truckId |-> truckId, type |-> type, severity |-> severity]

saudiTrucksData ==
  << Truck("T1", "Company A", "container", Riyadh, Jeddah, RouteH40, "moving", 80000, << >>),
     Truck("T2", "Company B", "tanker", Dammam, Riyadh, RouteH50, "stopped", 0, << >>) >>

TruckStatus == {"moving", "stopped", "completed", "delayed", "maintenance"}
AlertType == {"speed", "lock", "direction", "stop", "battery", "fuel", "temperature"}

\* bounds of the model
MaxAlerts == 2
MaxTime == 2
MaxSteps == 2

\* inputs of the store actions
\* T9 is the id of no truck
TruckIdInputs == {"T1", "T2", "T9"}
StatusIdInputs == {"T1", "T9"}
PositionIdInputs == {"T2", "T9"}
StatusInputs == {"completed"}
PositionInputs == {[lat |-> 245247, lng |-> 461792]}
AlertInputs == {Alert("alert-1", "T1", "speed", "warning"),
                Alert("alert-2", "T2", "fuel", "info")}
AlertIdInputs == {"alert-1", "alert-2", "0", "1"}
SelectInputs == {"T1", Null}
AnimatedIdInputs == {"T1"}

\* a Partial<TruckFilters>: the keys given a value, and the keys given undefined
Partial(vals, undef) == [vals |-> vals, undef |-> undef]
NoKeys == [k \in {} |-> Undefined]
FilterPartialInputs == {Partial([status |-> <<"moving">>], {})}

\* Math.random() draws, per mille: the first draw of a call, and its second
RandomDraws == {0, 500, 999}
SecondDraws == {500}

(***************************************************************************)
(* initialState                                                            *)
(***************************************************************************)
\* a filter key that is undefined is a key the record does not have
initialFilters == NoKeys

initialUi == [selectedTruckId |-> Null]

\* the keys of the object the store is created from
StoreActionNames ==
  {"loadTrucks", "loadRoutes", "loadCheckpoints", "loadAirports",
   "loadSecurityPoints", "updateTruckPosition", "updateTruckStatus", "addAlert",
   "removeAlert", "setFilters", "setTruckFilters", "setAlertFilters",
   "clearFilters", "selectTruck", "setMapViewport", "toggleSidebar",
   "toggleFilterPanel", "toggleAlertPanel", "toggleMapLayer", "setTheme",
   "setLoading", "setError", "clearError", "startTruckAnimation",
   "updateAnimations", "stopTruckAnimation"}

StoreInit(trs) ==
  /\ trucks = trs
  /\ filters = initialFilters
  /\ ui = initialUi
  /\ animations = << >>
  /\ isLoading = FALSE
  /\ error = Null
  /\ lastUpdate = Null
  /\ simulationActive = TRUE
  /\ uncaught = Null
  /\ now = 0
  /\ lastCall = [op |-> "none"]
  /\ steps = 0

Init == StoreInit(saudiTrucksData)

(***************************************************************************)
(* Data loading actions                                                    *)
(***************************************************************************)
\* what the try block of loadTrucks may throw: an Error, or another value
LoadErrors == {[isError |-> TRUE, message |-> "Failed to fetch trucks"],
               [isError |-> FALSE, message |-> ""]}

\* the loadTrucks invocations that are at their await
LoadsInFlight == IF lastCall.op = "loadTrucks" THEN lastCall.pending ELSE 0

LoadAwaiting == LoadsInFlight > 0

\* the call of loadTrucks, up to its await; lastCall holds the pending calls
loadTrucks ==
  IF isLoading \/ Len(trucks) > 0
  THEN UNCHANGED vars
  ELSE /\ isLoading' = TRUE
       /\ error' = Null
       /\ lastCall' = [op |-> "loadTrucks", phase |-> "awaiting", before |-> trucks,
                       pending |-> LoadsInFlight + 1]
       /\ UNCHANGED <<trucks, filters, ui, animations, lastUpdate, simulationActive,
                      uncaught, now, steps>>

\* a faulty variant of the try block: isLoading is not set back
loadTrucksResolvedLoading ==
  /\ LoadAwaiting
  /\ trucks' = saudiTrucksData
  /\ lastUpdate' = IsoNow
  /\ lastCall' = [lastCall EXCEPT !.phase = "loaded", !.pending = @ - 1]
  /\ UNCHANGED <<isLoading, filters, ui, animations, error, simulationActive,
                 uncaught, now, steps>>

\* the rest of the try block, after the await
loadTrucksResolved ==
  /\ LoadAwaiting
  /\ trucks' = saudiTrucksData
  /\ isLoading' = FALSE
  /\ lastUpdate' = IsoNow
  /\ lastCall' = [lastCall EXCEPT !.phase = "loaded", !.pending = @ - 1]
  /\ UNCHANGED <<filters, ui, animations, error, simulationActive, uncaught, now,
                 steps>>

\* a faulty variant of the catch block: the store is left loading, without trucks
loadTrucksFailedStuck(e) ==
  /\ LoadAwaiting
  /\ error' = IF e.isError THEN e.message ELSE "Failed to load trucks"
  /\ trucks' = << >>
  /\ lastCall' = [lastCall EXCEPT !.phase = "failed", !.pending = @ - 1]
  /\ UNCHANGED <<isLoading, filters, ui, animations, lastUpdate, simulationActive,
                 uncaught, now, steps>>

\* the catch block: the try block threw e
loadTrucksFailed(e) ==
  /\ LoadAwaiting
  /\ error' = IF e.isError THEN e.message ELSE "Failed to load trucks"
  /\ isLoading' = FALSE
  /\ lastCall' = [lastCall EXCEPT !.phase = "failed", !.pending = @ - 1]
  /\ UNCHANGED <<trucks, filters, ui, animations, lastUpdate, simulationActive,
                 uncaught, now, steps>>

setLoading(loading) ==
  /\ isLoading' = loading
  /\ UNCHANGED <<trucks, filters, ui, animations, error, lastUpdate,
                 simulationActive, uncaught, now, lastCall, steps>>

setError(message) ==
  /\ error' = message
  /\ UNCHANGED <<trucks, filters, ui, animations, isLoading, lastUpdate,
                 simulationActive, uncaught, now, lastCall, steps>>

clearError ==
  /\ error' = Null
  /\ UNCHANGED <<trucks, filters, ui, animations, isLoading, lastUpdate,
                 simulationActive, uncaught, now, lastCall, steps>>

\* the catch block of loadRoutes: its try block threw e
loadRoutesFailed(e) ==
  /\ error' = IF e.isError THEN e.message ELSE "Failed to load routes"
  /\ isLoading' = FALSE
  /\ UNCHANGED <<trucks, filters, ui, animations, lastUpdate, simulationActive,
                 uncaught, now, lastCall, steps>>

(***************************************************************************)
(* Truck management actions                                                *)
(***************************************************************************)
\* Array.prototype.map over the trucks
MapTrucks(trs, F(_)) == [i \in DOMAIN trs |-> F(trs[i])]

updateTruckPosition(truckId, position) ==
  LET F(truck) == IF truck.id = truckId
                  THEN [truck EXCEPT !.currentPosition = position,
                                     !.lastUpdate = IsoNow]
                  ELSE truck
  IN  /\ trucks' = MapTrucks(trucks, F)
      /\ lastUpdate' = IsoNow
      /\ UNCHANGED <<filters, ui, animations, isLoading, error, simulationActive,
                     uncaught, now, lastCall, steps>>

\* a faulty variant of the update: the other trucks are dropped
updateTruckStatusOnly(truckId, status) ==
  LET Mine(truck) == truck.id = truckId
      F(truck) == [truck EXCEPT !.status = status, !.lastUpdate = IsoNow]
  IN  /\ trucks' = MapTrucks(SelectSeq(trucks, Mine), F)
      /\ lastUpdate' = IsoNow
      /\ UNCHANGED <<filters, ui, animations, isLoading, error, simulationActive,
                     uncaught, now, lastCall, steps>>

updateTruckStatus(truckId, status) ==
  LET F(truck) == IF truck.id = truckId
                  THEN [truck EXCEPT !.status = status, !.lastUpdate = IsoNow]
                  ELSE truck
  IN  /\ trucks' = MapTrucks(trucks, F)
      /\ lastUpdate' = IsoNow
      /\ UNCHANGED <<filters, ui, animations, isLoading, error, simulationActive,
                     uncaught, now, lastCall, steps>>

\* a faulty variant of the append: only the last five alerts are kept
addAlertLastFive(truckId, alert) ==
  LET LastFive(a) == IF Len(a) <= 5 THEN a ELSE SubSeq(a, Len(a) - 4, Len(a))
      F(truck) == IF truck.id = truckId
                  THEN [truck EXCEPT !.alerts = LastFive(Append(truck.alerts, alert)),
                                     !.lastUpdate = IsoNow]
                  ELSE truck
  IN  /\ trucks' = MapTrucks(trucks, F)
      /\ lastUpdate' = IsoNow
      /\ UNCHANGED <<filters, ui, animations, isLoading, error, simulationActive,
                     uncaught, now, lastCall, steps>>

addAlert(truckId, alert) ==
  LET F(truck) == IF truck.id = truckId
                  THEN [truck EXCEPT !.alerts = Append(truck.alerts, alert),
                                     !.lastUpdate = IsoNow]
                  ELSE truck
  IN  /\ trucks' = MapTrucks(trucks, F)
      /\ lastUpdate' = IsoNow
      /\ UNCHANGED <<filters, ui, animations, isLoading, error, simulationActive,
                     uncaught, now, lastCall, steps>>

\* Number.prototype.toString of an array index
RECURSIVE IndexToString(_)
IndexToString(n) ==
  LET digit == <<"0", "1", "2", "3", "4", "5", "6", "7", "8", "9">>
  IN  IF n < 10 THEN digit[n + 1]
      ELSE IndexToString(n \div 10) \o digit[(n % 10) + 1]

\* Array.prototype.filter with the (element, index) callback, index from 0
FilterIndexed(s, Keep(_, _)) ==
  LET RECURSIVE From(_)
      From(i) == IF i > Len(s) THEN << >>
                 ELSE IF Keep(s[i], i - 1) THEN <<s[i]>> \o From(i + 1)
                 ELSE From(i + 1)
  IN  From(1)

removeAlert(truckId, alertId) ==
  LET Keep(alert, index) == IndexToString(index) # alertId
      F(truck) == IF truck.id = truckId
                  THEN [truck EXCEPT !.alerts = FilterIndexed(truck.alerts, Keep),
                                     !.lastUpdate = IsoNow]
                  ELSE truck
  IN  /\ trucks' = MapTrucks(trucks, F)
      /\ lastUpdate' = IsoNow
      /\ UNCHANGED <<filters, ui, animations, isLoading, error, simulationActive,
                     uncaught, now, lastCall, steps>>

(***************************************************************************)
(* Filtering and UI actions                                                *)
(***************************************************************************)
\* { ...state.filters, ...filters }
SpreadFilters(old, partial) ==
  LET keys == (DOMAIN old \ partial.undef) \cup DOMAIN partial.vals
  IN  [k \in keys |-> IF k \in DOMAIN partial.vals THEN partial.vals[k] ELSE old[k]]

setFilters(partial) ==
  /\ filters' = SpreadFilters(filters, partial)
  /\ UNCHANGED <<trucks, ui, animations, isLoading, error, lastUpdate,
                 simulationActive, uncaught, now, lastCall, steps>>

\* a faulty variant of the action: the partial replaces the filters
setTruckFiltersReplace(partial) ==
  /\ filters' = partial.vals
  /\ UNCHANGED <<trucks, ui, animations, isLoading, error, lastUpdate,
                 simulationActive, uncaught, now, lastCall, steps>>

setTruckFilters(partial) ==
  /\ filters' = SpreadFilters(filters, partial)
  /\ UNCHANGED <<trucks, ui, animations, isLoading, error, lastUpdate,
                 simulationActive, uncaught, now, lastCall, steps>>

clearFilters ==
  /\ filters' = initialFilters
  /\ UNCHANGED <<trucks, ui, animations, isLoading, error, lastUpdate,
                 simulationActive, uncaught, now, lastCall, steps>>

selectTruck(truckId) ==
  /\ ui' = [ui EXCEPT !.selectedTruckId = truckId]
  /\ UNCHANGED <<trucks, filters, animations, isLoading, error, lastUpdate,
                 simulationActive, uncaught, now, lastCall, steps>>

(***************************************************************************)
(* Animation actions; Date.now() is the clock now                          *)
(***************************************************************************)
\* animation duration of the source: 2000 ms, in seconds
DefaultDuration == 2

\* position + (target - position) * progress, progress per mille
Interpolate(from, to, progress) ==
  [lat |-> from.lat + ((to.lat - from.lat) * progress) \div 1000,
   lng |-> from.lng + ((to.lng - from.lng) * progress) \div 1000]

\* Array.prototype.find: the first element that satisfies P, as a set of 0 or 1
FindFirst(s, P(_)) ==
  LET hits == {i \in DOMAIN s : P(s[i])}
  IN  IF hits = {} THEN {}
      ELSE {s[CHOOSE i \in hits : \A j \in hits : i <= j]}

\* a faulty variant of the start: the truck's earlier animation is kept
startTruckAnimationStacked(truckId, targetPosition, duration) ==
  LET IsIt(t) == t.id = truckId
      found == FindFirst(trucks, IsIt)
      start == IF found = {} THEN targetPosition
               ELSE (CHOOSE t \in found : TRUE).currentPosition
  IN  /\ animations' = Append(animations,
                              [truckId |-> truckId,
                               currentPosition |-> start,
                               targetPosition |-> targetPosition,
                               progress |-> 0,
                               duration |-> duration,
                               startTime |-> now,
                               isActive |-> TRUE])
      /\ UNCHANGED <<trucks, filters, ui, isLoading, error, lastUpdate,
                     simulationActive, uncaught, now, lastCall, steps>>

startTruckAnimation(truckId, targetPosition, duration) ==
  LET IsIt(t) == t.id = truckId
      Other(anim) == anim.truckId # truckId
      found == FindFirst(trucks, IsIt)
      start == IF found = {} THEN targetPosition
               ELSE (CHOOSE t \in found : TRUE).currentPosition
  IN  /\ animations' = Append(SelectSeq(animations, Other),
                              [truckId |-> truckId,
                               currentPosition |-> start,
                               targetPosition |-> targetPosition,
                               progress |-> 0,
                               duration |-> duration,
                               startTime |-> now,
                               isActive |-> TRUE])
      /\ UNCHANGED <<trucks, filters, ui, isLoading, error, lastUpdate,
                     simulationActive, uncaught, now, lastCall, steps>>

\* a faulty variant of the update: an animated truck is also marked as moving
updateAnimationsMoving ==
  LET Advance(anim) ==
        IF ~anim.isActive THEN anim
        ELSE LET elapsed == now - anim.startTime
                 progress == Min((elapsed * 1000) \div anim.duration, 1000)
             IN  [anim EXCEPT !.progress = progress, !.isActive = progress < 1000]
      Active(anim) == anim.isActive
      updatedAnimations ==
        SelectSeq([i \in DOMAIN animations |-> Advance(animations[i])], Active)
      Move(truck) ==
        LET Mine(anim) == anim.truckId = truck.id
            animation == FindFirst(updatedAnimations, Mine)
        IN  IF animation # {}
            THEN LET a == CHOOSE x \in animation : TRUE
                     p == Interpolate(a.currentPosition, a.targetPosition, a.progress)
                 IN  [truck EXCEPT !.currentPosition = Pos(p.lat, p.lng),
                                   !.status = "moving"]
            ELSE truck
  IN  /\ animations' = updatedAnimations
      /\ trucks' = MapTrucks(trucks, Move)
      /\ UNCHANGED <<filters, ui, isLoading, error, lastUpdate, simulationActive,
                     uncaught, now, lastCall, steps>>

updateAnimations ==
  LET Advance(anim) ==
        IF ~anim.isActive THEN anim
        ELSE LET elapsed == now - anim.startTime
                 progress == Min((elapsed * 1000) \div anim.duration, 1000)
             IN  [anim EXCEPT !.progress = progress, !.isActive = progress < 1000]
      Active(anim) == anim.isActive
      updatedAnimations ==
        SelectSeq([i \in DOMAIN animations |-> Advance(animations[i])], Active)
      Move(truck) ==
        LET Mine(anim) == anim.truckId = truck.id
            animation == FindFirst(updatedAnimations, Mine)
        IN  IF animation # {}
            THEN LET a == CHOOSE x \in animation : TRUE
                     p == Interpolate(a.currentPosition, a.targetPosition, a.progress)
                 IN  [truck EXCEPT !.currentPosition = Pos(p.lat, p.lng)]
            ELSE truck
  IN  /\ animations' = updatedAnimations
      /\ trucks' = MapTrucks(trucks, Move)
      /\ UNCHANGED <<filters, ui, isLoading, error, lastUpdate, simulationActive,
                     uncaught, now, lastCall, steps>>

stopTruckAnimation(truckId) ==
  LET Other(anim) == anim.truckId # truckId
  IN  /\ animations' = SelectSeq(animations, Other)
      /\ UNCHANGED <<trucks, filters, ui, isLoading, error, lastUpdate,
                     simulationActive, uncaught, now, lastCall, steps>>

\* time passes
AdvanceTime ==
  /\ now < MaxTime
  /\ now' = now + 1
  /\ UNCHANGED <<trucks, filters, ui, animations, isLoading, error, lastUpdate,
                 simulationActive, uncaught, lastCall, steps>>

(***************************************************************************)
(* GoogleMapsComponent: the simulation interval and its checkbox           *)
(***************************************************************************)
\* the checkbox's onChange; the effect clears or creates the interval
setSimulationActive(checked) ==
  /\ simulationActive' = checked
  /\ UNCHANGED <<trucks, filters, ui, animations, isLoading, error, lastUpdate,
                 uncaught, now, lastCall, steps>>

\* a faulty variant of the callback: the interval outlives the effect's cleanup
TimerFiresUncleared ==
  /\ "updateAllMovingTrucks" \notin StoreActionNames
  /\ uncaught' = "TypeError: updateAllMovingTrucks is not a function"
  /\ UNCHANGED <<trucks, filters, ui, animations, isLoading, error, lastUpdate,
                 simulationActive, now, lastCall, steps>>

\* The interval's callback.  It takes updateAllMovingTrucks from
\* useTruckStore.getState() and calls it; the store defines no such key, so the
\* call is a call of undefined: a TypeError leaves the callback, and the store
\* is as it was.
TimerFires ==
  /\ simulationActive
  /\ "updateAllMovingTrucks" \notin StoreActionNames
  /\ uncaught' = "TypeError: updateAllMovingTrucks is not a function"
  /\ UNCHANGED <<trucks, filters, ui, animations, isLoading, error, lastUpdate,
                 simulationActive, now, lastCall, steps>>

(***************************************************************************)
(* Selectors                                                               *)
(***************************************************************************)
\* Array.prototype.includes / some
InSeq(x, s) == \E i \in DOMAIN s : s[i] = x

\* a faulty variant of the filter: the status predicate is skipped when hasAlerts is given
useFilteredTrucksLoose(trs, f) ==
  LET Has(k) == k \in DOMAIN f
      Keep(truck) ==
        IF Has("origin") /\ f.origin # "" /\ truck.origin.name # f.origin
          THEN FALSE
        ELSE IF Has("destination") /\ f.destination # ""
                /\ truck.destination.name # f.destination
          THEN FALSE
        ELSE IF Has("route") /\ f.route # << >> /\ truck.route # f.route
          THEN FALSE
        ELSE IF Has("status") /\ ~Has("hasAlerts") /\ Len(f.status) > 0
                /\ ~InSeq(truck.status, f.status)
          THEN FALSE
        ELSE IF Has("company") /\ Len(f.company) > 0
                /\ ~InSeq(truck.company, f.company)
          THEN FALSE
        ELSE IF Has("truckType") /\ Len(f.truckType) > 0
                /\ ~InSeq(truck.truckType, f.truckType)
          THEN FALSE
        ELSE IF Has("hasAlerts") /\ f.hasAlerts # (Len(truck.alerts) > 0)
          THEN FALSE
        ELSE IF Has("alertTypes") /\ Len(f.alertTypes) > 0
                /\ ~(\E i \in DOMAIN f.alertTypes :
                       InSeq(f.alertTypes[i],
                             [j \in DOMAIN truck.alerts |-> truck.alerts[j].type]))
          THEN FALSE
        ELSE TRUE
  IN  SelectSeq(trs, Keep)

\* a faulty variant of the filter: the matching trucks come last first
useFilteredTrucksReversed(trs, f) ==
  LET kept == useFilteredTrucksLoose(trs, f)
  IN  [i \in DOMAIN kept |-> kept[Len(kept) + 1 - i]]

useFilteredTrucksOf(trs, f) ==
  LET Has(k) == k \in DOMAIN f
      Keep(truck) ==
        IF Has("origin") /\ f.origin # "" /\ truck.origin.name # f.origin
          THEN FALSE
        ELSE IF Has("destination") /\ f.destination # ""
                /\ truck.destination.name # f.destination
          THEN FALSE
        ELSE IF Has("route") /\ f.route # << >> /\ truck.route # f.route
          THEN FALSE
        ELSE IF Has("status") /\ Len(f.status) > 0 /\ ~InSeq(truck.status, f.status)
          THEN FALSE
        ELSE IF Has("company") /\ Len(f.company) > 0
                /\ ~InSeq(truck.company, f.company)
          THEN FALSE
        ELSE IF Has("truckType") /\ Len(f.truckType) > 0
                /\ ~InSeq(truck.truckType, f.truckType)
          THEN FALSE
        ELSE IF Has("hasAlerts") /\ f.hasAlerts # (Len(truck.alerts) > 0)
          THEN FALSE
        ELSE IF Has("alertTypes") /\ Len(f.alertTypes) > 0
                /\ ~(\E i \in DOMAIN f.alertTypes :
                       InSeq(f.alertTypes[i],
                             [j \in DOMAIN truck.alerts |-> truck.alerts[j].type]))
          THEN FALSE
        ELSE TRUE
  IN  SelectSeq(trs, Keep)

useFilteredTrucks == useFilteredTrucksOf(trucks, filters)

(***************************************************************************)
(* generateRandomEvent                                                     *)
(***************************************************************************)
\* `alert-${Date.now()}`
AlertIdNow == "alert-" \o IndexToString(now)

\* a faulty variant of the events: a speed of exactly 100 is flagged a warning
generateRandomEventEager(truck, random) ==
  (IF random < 50
   THEN << Alert(AlertIdNow, truck.id, "speed",
                 IF truck.speed >= 100000 THEN "warning" ELSE "info") >>
   ELSE << >>)
  \o
  (IF random < 20
   THEN << Alert(AlertIdNow, truck.id, "fuel",
                 IF truck.fuel < 30 THEN "warning" ELSE "info") >>
   ELSE << >>)

\* a faulty variant of the events: the fuel alert has a draw of its own
generateRandomEventApart(truck, random) ==
  (IF random < 50
   THEN << Alert(AlertIdNow, truck.id, "speed",
                 IF truck.speed > 100000 THEN "warning" ELSE "info") >>
   ELSE << >>)
  \o
  (IF (random * 7) % 1000 < 20
   THEN << Alert(AlertIdNow, truck.id, "fuel",
                 IF truck.fuel < 30 THEN "warning" ELSE "info") >>
   ELSE << >>)

\* random is the draw of Math.random(), per mille
generateRandomEvent(truck, random) ==
  (IF random < 50
   THEN << Alert(AlertIdNow, truck.id, "speed",
                 IF truck.speed > 100000 THEN "warning" ELSE "info") >>
   ELSE << >>)
  \o
  (IF random < 20
   THEN << Alert(AlertIdNow, truck.id, "fuel",
                 IF truck.fuel < 30 THEN "warning" ELSE "info") >>
   ELSE << >>)

(***************************************************************************)
(* Derived views: useSelectedTruck, useTruckStats, useAlertStats           *)
(***************************************************************************)
\* a faulty variant of the selection: the first truck stands in for an unknown id
useSelectedTruckFirst ==
  LET selectedId == ui.selectedTruckId
      found == {i \in DOMAIN trucks : trucks[i].id = selectedId}
  IN  IF selectedId = Null \/ selectedId = "" THEN NullRecord
      ELSE IF found # {} THEN trucks[CHOOSE i \in found : \A j \in found : i <= j]
      ELSE IF trucks # << >> THEN trucks[1]
      ELSE NullRecord

\* selectedId ? trucks.find(...) || null : null
useSelectedTruck ==
  LET selectedId == ui.selectedTruckId
      found == {i \in DOMAIN trucks : trucks[i].id = selectedId}
  IN  IF selectedId = Null \/ selectedId = "" THEN NullRecord
      ELSE IF found # {} THEN trucks[CHOOSE i \in found : \A j \in found : i <= j]
      ELSE NullRecord

\* trucks.filter(P).length
CountWhere(trs, P(_)) == Cardinality({i \in DOMAIN trs : P(trs[i])})

\* trucks.reduce((sum, t) => sum + t.speed, 0)
RECURSIVE SumSpeeds(_)
SumSpeeds(trs) ==
  IF trs = << >> THEN 0 ELSE trs[1].speed + SumSpeeds(Tail(trs))

\* the quotient of two numbers: 0 / 0 is NaN, x / 0 is Infinity; a finite
\* quotient is kept to the model's 1e-3 km/h
Divide(a, b) ==
  IF b # 0 THEN [kind |-> "number", value |-> a \div b]
  ELSE IF a = 0 THEN [kind |-> "NaN", value |-> 0]
  ELSE [kind |-> "Infinity", value |-> 0]

\* q || 0: NaN and 0 are falsy
OrZero(q) == IF q.kind = "NaN" THEN 0 ELSE q.value

\* a faulty variant of the statistics: the mean is taken over the moving trucks
useTruckStatsMoving(trs) ==
  LET Moving(t) == t.status = "moving"
      Stopped(t) == t.status = "stopped"
      Completed(t) == t.status = "completed"
      WithAlerts(t) == Len(t.alerts) > 0
  IN  [total |-> Len(trs),
       moving |-> CountWhere(trs, Moving),
       stopped |-> CountWhere(trs, Stopped),
       completed |-> CountWhere(trs, Completed),
       withAlerts |-> CountWhere(trs, WithAlerts),
       averageSpeed |-> OrZero(Divide(SumSpeeds(trs), CountWhere(trs, Moving)))]

useTruckStatsOf(trs) ==
  LET Moving(t) == t.status = "moving"
      Stopped(t) == t.status = "stopped"
      Completed(t) == t.status = "completed"
      WithAlerts(t) == Len(t.alerts) > 0
  IN  [total |-> Len(trs),
       moving |-> CountWhere(trs, Moving),
       stopped |-> CountWhere(trs, Stopped),
       completed |-> CountWhere(trs, Completed),
       withAlerts |-> CountWhere(trs, WithAlerts),
       averageSpeed |-> OrZero(Divide(SumSpeeds(trs), Len(trs)))]

useTruckStats == useTruckStatsOf(trucks)

\* trucks.flatMap((truck) => truck.alerts)
RECURSIVE FlatAlerts(_)
FlatAlerts(trs) ==
  IF trs = << >> THEN << >> ELSE trs[1].alerts \o FlatAlerts(Tail(trs))

NoAlertStats ==
  [type \in AlertType |-> [count |-> 0, critical |-> 0, warning |-> 0, info |-> 0]]

\* a faulty variant of the round: a critical alert is left out of the count
CountAlertQuiet(stats, alert) ==
  IF alert.type \in DOMAIN stats
  THEN [stats EXCEPT ![alert.type].count =
                        IF alert.severity = "critical" THEN @ ELSE @ + 1,
                     ![alert.type][alert.severity] = @ + 1]
  ELSE stats

\* one round of the forEach: stats[alert.type].count++ and
\* stats[alert.type][alert.severity]++, for a type stats has
CountAlert(stats, alert) ==
  IF alert.type \in DOMAIN stats
  THEN [stats EXCEPT ![alert.type].count = @ + 1,
                     ![alert.type][alert.severity] = @ + 1]
  ELSE stats

RECURSIVE ForEachAlert(_, _)
ForEachAlert(stats, alerts) ==
  IF alerts = << >> THEN stats
  ELSE ForEachAlert(CountAlert(stats, alerts[1]), Tail(alerts))

useAlertStatsOf(trs) == ForEachAlert(NoAlertStats, FlatAlerts(trs))

useAlertStats == useAlertStatsOf(trucks)

(***************************************************************************)
(* The store and the simulation timer                                      *)
(***************************************************************************)
TotalAlerts == LET RECURSIVE Sum(_)
                   Sum(i) == IF i = 0 THEN 0 ELSE Len(trucks[i].alerts) + Sum(i - 1)
               IN  Sum(Len(trucks))

Next ==
  \/ \E id \in PositionIdInputs, p \in PositionInputs : updateTruckPosition(id, p)
  \/ \E id \in StatusIdInputs, s \in StatusInputs : updateTruckStatus(id, s)
  \/ \E id \in TruckIdInputs, a \in AlertInputs :
       TotalAlerts < MaxAlerts /\ addAlert(id, a)
  \/ \E id \in TruckIdInputs, a \in AlertIdInputs : removeAlert(id, a)
  \/ \E p \in FilterPartialInputs : setFilters(p)
  \/ \E p \in FilterPartialInputs : setTruckFilters(p)
  \/ clearFilters
  \/ \E id \in SelectInputs : selectTruck(id)
  \/ \E id \in AnimatedIdInputs, p \in PositionInputs :
       startTruckAnimation(id, p, DefaultDuration)
  \/ updateAnimations
  \/ \E id \in AnimatedIdInputs : stopTruckAnimation(id)
  \/ AdvanceTime
  \/ \E c \in BOOLEAN : setSimulationActive(c)
  \/ TimerFires
  \/ loadTrucks

Spec == Init /\ [][Next]_vars

(***************************************************************************)
(* The simulator applied to one truck, tick after tick                     *)
(***************************************************************************)
\* positions a simulated truck starts from
AtRiyadh == [lat |-> 247136, lng |-> 466753]
AtDammam == [lat |-> 264207, lng |-> 500888]
AtJeddah == [lat |-> 214858, lng |-> 391925]
NearJeddah == [lat |-> 214858, lng |-> 392025]
OnTheWay == [lat |-> 246500, lng |-> 465000]
\* as far from Riyadh as from Al-Kharj, the first two waypoints of Highway_40
Halfway == [lat |-> 246131, lng |-> 464300]

\* on the road from Riyadh to Al-Kharj, a little nearer to Al-Kharj
PastHalfway == [lat |-> 246154, lng |-> 464173]

SimPositions == {AtRiyadh, AtDammam, AtJeddah, NearJeddah, OnTheWay, Halfway,
                 PastHalfway}
SimSpeeds == {0, 80000, 150000}
SimRoutes == {RouteH40, RouteH50, RouteH5, RouteH15, RouteH55, RouteH15via5,
              RouteH5via50, RouteNone, RouteEmpty}

SimTruck(position, speed, route) ==
  [Truck("S1", "Company A", "container", Riyadh, Jeddah, route, "moving", speed, << >>)
     EXCEPT !.currentPosition = FixturePos(position.lat, position.lng)]

SimInit ==
  \E p \in SimPositions, s \in SimSpeeds, r \in SimRoutes :
    StoreInit(<< SimTruck(p, s, r) >>)

\* one tick for the truck: the Partial<Truck> is merged into it
SimulateTruck(r1, r2) ==
  LET truck == trucks[1]
      highway == ResolveHighway(truck.route)
      update == simulateRealisticMovement(truck, r1, r2)
  IN  /\ steps < MaxSteps
      /\ trucks' = << MergeUpdate(truck, update) >>
      /\ lastCall' = [op |-> "simulateRealisticMovement", truck |-> truck, r1 |-> r1,
                      highway |-> highway,
                      nearest |-> findNearestWaypoint(truck.currentPosition, highway),
                      update |-> update]
      /\ steps' = steps + 1
      /\ UNCHANGED <<filters, ui, animations, isLoading, error, lastUpdate,
                     simulationActive, uncaught, now>>

SimNext == \E r1 \in RandomDraws, r2 \in SecondDraws : SimulateTruck(r1, r2)

SimSpec == SimInit /\ [][SimNext]_vars

(***************************************************************************)
(* The filtered list over truck collections and filter criteria            *)
(***************************************************************************)
FilterTruck1 ==
  Truck("1", "Company A", "container", Riyadh, Jeddah, RouteH40, "moving", 80000,
        << Alert("a1", "1", "speed", "warning") >>)
FilterTruck2 ==
  Truck("2", "Company B", "tanker", Dammam, Riyadh, RouteH50, "stopped", 0, << >>)
FilterTruck3 ==
  Truck("3", "Company A", "tanker", Riyadh, Dammam, RouteH40, "moving", 95000,
        << Alert("a2", "3", "fuel", "info"), Alert("a3", "3", "speed", "info") >>)

FilterCollections ==
  { << FilterTruck1, FilterTruck2, FilterTruck3 >>,
    << FilterTruck3, FilterTruck1 >>,
    << >> }

FilterValues ==
  [origin      |-> {"Riyadh", ""},
   destination |-> {"Jeddah"},
   route       |-> {RouteH40},
   status      |-> {<< >>, <<"moving">>, <<"stopped", "completed">>},
   company     |-> {<< >>, <<"Company A">>},
   truckType   |-> {<<"tanker">>},
   hasAlerts   |-> {TRUE, FALSE},
   alertTypes  |-> {<< >>, <<"fuel">>, <<"lock", "speed">>}]

\* the partials that set one key, to a value or to undefined
OneKeyPartials ==
  UNION { {Partial([x \in {k} |-> v], {}) : v \in FilterValues[k]}
            \cup {Partial(NoKeys, {k})} : k \in DOMAIN FilterValues }

\* with two partials of two keys: two values, and a value with an undefined
FilterPartials ==
  OneKeyPartials
    \cup {Partial([status |-> <<"moving">>, hasAlerts |-> TRUE], {}),
          Partial([origin |-> "Riyadh"], {"status"})}

FilterInit == \E c \in FilterCollections : StoreInit(c)

FilterNext ==
  \/ \E p \in FilterPartials : setFilters(p)
  \/ \E p \in FilterPartials : setTruckFilters(p)
  \/ clearFilters

FilterSpec == FilterInit /\ [][FilterNext]_vars

(***************************************************************************)
(* generateRandomEvent applied to one truck                                *)
(***************************************************************************)
EventIds == {"E1", "E2"}
EventSpeeds == {80000, 100000, 100001, 120000}
EventFuels == {29, 30, 31}
\* draws on both sides of the 2% and 5% thresholds
EventDraws == {0, 19, 20, 49, 50, 999}

EventTruck(id, speed, fuel) ==
  [Truck(id, "Company A", "container", Riyadh, Jeddah, RouteH40, "moving", speed, << >>)
     EXCEPT !.fuel = fuel]

EventInit ==
  \E id \in EventIds, s \in EventSpeeds, f \in EventFuels :
    StoreInit(<< EventTruck(id, s, f) >>)

GenerateEvent(random) ==
  /\ steps < MaxSteps
  /\ lastCall' = [op |-> "generateRandomEvent", truck |-> trucks[1],
                  random |-> random,
                  events |-> generateRandomEvent(trucks[1], random)]
  /\ steps' = steps + 1
  /\ UNCHANGED <<trucks, filters, ui, animations, isLoading, error, lastUpdate,
                 simulationActive, uncaught, now>>

EventNext ==
  \/ \E random \in EventDraws : GenerateEvent(random)
  \/ AdvanceTime

EventSpec == EventInit /\ [][EventNext]_vars

(***************************************************************************)
(* The derived views over a store whose trucks are updated                 *)
(***************************************************************************)
ViewCollections == { saudiTrucksData, << >> }
\* T9 is the id of no truck
ViewSelectInputs == {"T1", "T9", Null}
ViewStatusIdInputs == {"T1"}
ViewAlertInputs == {Alert("alert-1", "T1", "fuel", "warning"),
                    Alert("alert-2", "T2", "speed", "info"),
                    Alert("alert-3", "T2", "speed", "critical"),
                    Alert("alert-4", "T1", "lock", "warning")}
ViewAlertIdInputs == {"0"}

ViewInit == \E c \in ViewCollections : StoreInit(c)

ViewNext ==
  \/ \E id \in ViewStatusIdInputs, s \in TruckStatus : updateTruckStatus(id, s)
  \/ \E id \in PositionIdInputs, p \in PositionInputs : updateTruckPosition(id, p)
  \/ \E a \in ViewAlertInputs : TotalAlerts < MaxAlerts /\ addAlert(a.truckId, a)
  \/ \E id \in TruckIdInputs, a \in ViewAlertIdInputs : removeAlert(id, a)
  \/ \E id \in ViewSelectInputs : selectTruck(id)

ViewSpec == ViewInit /\ [][ViewNext]_vars

(***************************************************************************)
(* Loading the fixture into a store without trucks, or with them           *)
(***************************************************************************)
LoadCollections == { << >>, saudiTrucksData }
LoadErrorInputs == {"Network error"}

LoadInit == \E c \in LoadCollections : StoreInit(c)

\* SimpleDashboard awaits loadTrucks and then calls setLoading(false)
LoadNext ==
  \/ loadTrucks
  \/ loadTrucksResolved
  \/ \E e \in LoadErrors : loadTrucksFailed(e)
  \/ ~LoadAwaiting /\ setLoading(FALSE)
  \/ \E m \in LoadErrorInputs : setError(m)
  \/ clearError
  \/ \E id \in StatusIdInputs, s \in TruckStatus : updateTruckStatus(id, s)
  \/ \E id \in PositionIdInputs, p \in PositionInputs : updateTruckPosition(id, p)
  \/ \E id \in ViewSelectInputs : selectTruck(id)

LoadSpec == LoadInit /\ [][LoadNext]_vars

(***************************************************************************)
(* loadTrucks called at any moment, among the other loading actions        *)
(***************************************************************************)
MaxLoads == 2

LoadRaceNext ==
  \/ LoadsInFlight < MaxLoads /\ loadTrucks
  \/ loadTrucksResolved
  \/ \E e \in LoadErrors : loadTrucksFailed(e)
  \/ \E loading \in BOOLEAN : setLoading(loading)
  \/ \E e \in LoadErrors : loadRoutesFailed(e)
  \/ \E m \in LoadErrorInputs : setError(m)
  \/ clearError
  \/ \E id \in StatusIdInputs, s \in StatusInputs : updateTruckStatus(id, s)
  \/ \E id \in SelectInputs : selectTruck(id)

LoadRaceSpec == LoadInit /\ [][LoadRaceNext]_vars

(***************************************************************************)
(* loadTrucks as SimpleDashboard runs it; the timer of its await fires     *)
(***************************************************************************)
LoadFairNext ==
  \/ loadTrucks
  \/ loadTrucksResolved
  \/ \E e \in LoadErrors : loadTrucksFailed(e)
  \/ ~LoadAwaiting /\ setLoading(FALSE)
  \/ \E id \in TruckIdInputs, s \in TruckStatus : updateTruckStatus(id, s)
  \/ \E id \in PositionIdInputs, p \in PositionInputs : updateTruckPosition(id, p)
  \/ \E id \in ViewSelectInputs : selectTruck(id)

LoadFairSpec ==
  /\ LoadInit
  /\ [][LoadFairNext]_vars
  /\ WF_vars(loadTrucksResolved \/ \E e \in LoadErrors : loadTrucksFailed(e))

(***************************************************************************)
(* Alert lists that grow                                                   *)
(***************************************************************************)
MaxAlertList == 6

AlertNext ==
  \/ \E id \in TruckIdInputs, a \in AlertInputs :
       TotalAlerts < MaxAlertList /\ addAlert(id, a)
  \/ \E id \in TruckIdInputs, a \in ViewAlertIdInputs : removeAlert(id, a)

AlertSpec == Init /\ [][AlertNext]_vars

(***************************************************************************)
(* The fallback movement applied to one truck, tick after tick             *)
(***************************************************************************)
\* positions east of Jeddah, the destination: at about 0.5, 1.2, 2.5 and 10 km
FallbackPositions == {[lat |-> 214858, lng |-> 391973],
                      [lat |-> 214858, lng |-> 392041],
                      [lat |-> 214858, lng |-> 392167],
                      [lat |-> 214858, lng |-> 392891],
                      AtRiyadh}

FallbackInit ==
  \E p \in FallbackPositions, s \in SimSpeeds :
    StoreInit(<< SimTruck(p, s, RouteNone) >>)

\* one tick of the branch "Fallback to simple linear movement" for the truck
FallbackTick(r1, r2) ==
  LET truck == trucks[1]
      update == FallbackMovement(truck, r1, r2)
  IN  /\ steps < MaxSteps
      /\ truck.status = "moving"
      /\ trucks' = << MergeUpdate(truck, update) >>
      /\ lastCall' = [op |-> "FallbackMovement", truck |-> truck, r1 |-> r1,
                      update |-> update]
      /\ steps' = steps + 1
      /\ UNCHANGED <<filters, ui, animations, isLoading, error, lastUpdate,
                     simulationActive, uncaught, now>>

FallbackNext == \E r1 \in RandomDraws, r2 \in SecondDraws : FallbackTick(r1, r2)

FallbackSpec == FallbackInit /\ [][FallbackNext]_vars

(***************************************************************************)
(* Animations of several trucks, started, advanced and stopped             *)
(***************************************************************************)
AnimationDurations == {1, DefaultDuration}

AnimationNext ==
  \/ \E id \in TruckIdInputs, p \in PositionInputs, d \in AnimationDurations :
       startTruckAnimation(id, p, d)
  \/ updateAnimations
  \/ \E id \in TruckIdInputs : stopTruckAnimation(id)
  \/ AdvanceTime

AnimationSpec == Init /\ [][AnimationNext]_vars

(***************************************************************************)
(* The simulator ticking one truck for as long as the timer runs          *)
(***************************************************************************)
\* on the road from Al-Hofuf to Al-Khobar, the last two waypoints of
\* Highway_5, a little nearer to Al-Hofuf
BeforeAlKhobar == [lat |-> 258155, lng |-> 498877]
AtAlKhobar == [lat |-> 262172, lng |-> 501971]
\* north-east of Jeddah, the last waypoint of Highway_40, off the road
OffJeddah == [lat |-> 216000, lng |-> 393000]

ArrivalStarts == {<<BeforeAlKhobar, RouteH5>>, <<AtAlKhobar, RouteH5>>,
                  <<OffJeddah, RouteH40>>, <<NearJeddah, RouteH40>>}
\* two draws of Math.random(): traffic factors of 0.8 and 0.8012
ArrivalDraws == {0, 3}
\* the ticks counted; later ticks leave the count
ArrivalTicks == 20

ArrivalInit ==
  \E s \in ArrivalStarts : StoreInit(<< SimTruck(s[1], 84000, s[2]) >>)

\* one tick of the interval: the Partial<Truck> is merged into the truck
TickTruck(r1) ==
  LET truck == trucks[1]
      update == simulateRealisticMovement(truck, r1, 500)
  IN  /\ trucks' = << MergeUpdate(truck, update) >>
      /\ lastCall' = [op |-> "tick", before |-> truck.currentPosition]
      /\ steps' = IF steps < ArrivalTicks THEN steps + 1 ELSE steps
      /\ UNCHANGED <<filters, ui, animations, isLoading, error, lastUpdate,
                     simulationActive, uncaught, now>>

ArrivalNext == \E r1 \in ArrivalDraws : TickTruck(r1)

ArrivalSpec == ArrivalInit /\ [][ArrivalNext]_vars

(***************************************************************************)
(* Properties                                                              *)
(***************************************************************************)
Simulated == lastCall.op = "simulateRealisticMovement"

\* the waypoints of a highway, and the distances of a position to them
WaypointsOf(highway) == SAUDI_HIGHWAYS[highway].waypoints
DistancesTo(position, highway) ==
  [i \in DOMAIN WaypointsOf(highway) |->
     calculateDistance(position, WaypointsOf(highway)[i])]

\* the lowest index (from 1) of a waypoint at the least distance
LowestNearest(position, highway) ==
  LET d == DistancesTo(position, highway)
  IN  CHOOSE i \in DOMAIN d :
        /\ \A j \in DOMAIN d : d[i] <= d[j]
        /\ \A j \in DOMAIN d : j < i => d[i] < d[j]

\* the waypoint a truck on the highway heads for
TargetWaypoint(position, highway) ==
  LET wps == WaypointsOf(highway)
  IN  wps[Min(LowestNearest(position, highway) + 1, Len(wps))]

SamePlace(p, q) == p.lat = q.lat /\ p.lng = q.lng

\* a label holds a key when some window of it is the key
Holds(label, key) ==
  \E from \in 1..Len(label) :
    /\ from + Len(key) - 1 <= Len(label)
    /\ \A k \in 1..Len(key) : label[from + k - 1] = key[k]

NoKeyMatches(label) ==
  ~Holds(label, KeyHighway50) /\ ~Holds(label, KeyHighway5) /\ ~Holds(label, KeyHighway15)

\* C3: in the highway-following branch one call brings the truck strictly closer
\* to its target waypoint, unless the target was within the distance coverable
\* in the tick, and then the new position is the target waypoint; a truck at a
\* waypoint that is not the last ends the tick closer to the next waypoint.
C3_CloserToTarget ==
  Simulated =>
    LET before  == lastCall.truck.currentPosition
        after   == trucks[1].currentPosition
        highway == lastCall.highway
        wps     == WaypointsOf(highway)
        target  == TargetWaypoint(before, highway)
        dBefore == calculateDistance(before, target)
        dAfter  == calculateDistance(after, target)
        coverable == trucks[1].speed \div 30
    IN  /\ IF dBefore < coverable
           THEN SamePlace(after, target) /\ dAfter = 0
           ELSE dAfter < dBefore
        /\ \A i \in 1..(Len(wps) - 1) :
             SamePlace(before, wps[i]) =>
               calculateDistance(after, wps[i + 1]) < calculateDistance(before, wps[i + 1])

\* C3 witness: a truck short of its target by less than the coverable distance
\* was put on the target waypoint
C3_Witness ==
  /\ Simulated
  /\ ~SamePlace(lastCall.truck.currentPosition,
                TargetWaypoint(lastCall.truck.currentPosition, lastCall.highway))
  /\ SamePlace(trucks[1].currentPosition,
               TargetWaypoint(lastCall.truck.currentPosition, lastCall.highway))

\* C4: the speed returned by the highway-following branch is the current speed
\* moved 10% of the way to speedLimit x terrainFactor x trafficFactor, clamped
\* into [30, 120] km/h, for every input speed and traffic factor in [0.8, 1.2].
C4_SpeedSmoothedAndClamped ==
  Simulated =>
    LET old     == lastCall.truck.speed
        highway == lastCall.highway
        i       == LowestNearest(lastCall.truck.currentPosition, highway)
        traffic == 800 + (lastCall.r1 * 400) \div 1000
        target  == (SAUDI_HIGHWAYS[highway].speedLimits[i]
                    * SAUDI_HIGHWAYS[highway].terrainFactors[i] * traffic) \div 100
        moved   == old + (target - old) \div 10
        clamped == IF moved < 30000 THEN 30000
                   ELSE IF moved > 120000 THEN 120000 ELSE moved
    IN  /\ traffic >= 800 /\ traffic <= 1200
        /\ trucks[1].speed = clamped
        /\ lastCall.update.speed = clamped
        /\ trucks[1].speed >= 30000 /\ trucks[1].speed <= 120000

\* C4 witness: a speed below 30 km/h was raised to 30 km/h by the clamp
C4_Witness ==
  /\ Simulated
  /\ lastCall.truck.speed < 30000
  /\ trucks[1].speed = 30000

\* C5: findNearestWaypoint returns a waypoint at the least distance over the
\* whole path, the one of lowest index among those at that distance, with its
\* own index and distance; for every registered highway.
C5_NearestLowestIndex ==
  \A highway \in DOMAIN SAUDI_HIGHWAYS :
    LET position == trucks[1].currentPosition
        wps == WaypointsOf(highway)
        d == DistancesTo(position, highway)
        r == findNearestWaypoint(position, highway)
    IN  /\ ~IsNull(r)
        /\ r.index + 1 \in DOMAIN wps
        /\ r.waypoint = wps[r.index + 1]
        /\ r.distance = d[r.index + 1]
        /\ \A j \in DOMAIN wps : d[j] >= r.distance
        /\ \A j \in DOMAIN wps : j < r.index + 1 => d[j] > r.distance

\* C5 witness: the simulator looked up a position that has two waypoints at the
\* least distance, and got the first of them
C5_Witness ==
  /\ Simulated
  /\ LET d == DistancesTo(lastCall.truck.currentPosition, lastCall.highway)
     IN  \E i, j \in DOMAIN d :
           /\ i < j /\ d[i] = d[j]
           /\ \A k \in DOMAIN d : d[k] >= d[i]
           /\ lastCall.nearest.index = i - 1

\* C6: path resolution gives Highway_50 to a label holding 'Highway 50',
\* otherwise Highway_5 to one holding 'Highway 5', otherwise Highway_15 to one
\* holding 'Highway 15', and Highway_40 to a label holding none of them.
C6_PathResolution ==
  Simulated =>
    LET label == lastCall.truck.route
        h50 == Holds(label, KeyHighway50)
        h5  == Holds(label, KeyHighway5)
        h15 == Holds(label, KeyHighway15)
    IN  /\ lastCall.highway \in DOMAIN SAUDI_HIGHWAYS
        /\ h50 => lastCall.highway = "Highway_50"
        /\ (~h50 /\ h5) => lastCall.highway = "Highway_5"
        /\ (~h50 /\ ~h5 /\ h15) => lastCall.highway = "Highway_15"
        /\ (~h50 /\ ~h5 /\ ~h15) => lastCall.highway = "Highway_40"
        /\ \E i \in DOMAIN WaypointsOf(lastCall.highway) :
             lastCall.nearest.waypoint = WaypointsOf(lastCall.highway)[i]

\* C6 witness: a label holding 'Highway 5' and 'Highway 50' was resolved to Highway_50
C6_Witness ==
  /\ Simulated
  /\ Holds(lastCall.truck.route, KeyHighway5)
  /\ Holds(lastCall.truck.route, KeyHighway50)
  /\ lastCall.truck.route # RouteH50
  /\ lastCall.highway = "Highway_50"

\* C7: a moving truck whose route label matches no registered path and that is
\* less than 1 km from its destination is set by one tick to status completed,
\* speed 0, at its destination.
C7_CompletedNearDestination ==
  ( /\ Simulated
    /\ lastCall.truck.status = "moving"
    /\ NoKeyMatches(lastCall.truck.route)
    /\ calculateDistance(lastCall.truck.currentPosition, lastCall.truck.destination) < 1000 )
  => /\ trucks[1].status = "completed"
     /\ trucks[1].speed = 0
     /\ SamePlace(trucks[1].currentPosition, lastCall.truck.destination)

\* C8: the simulator returns an update for every truck and route label, and for
\* a label that matches no registered path the update is the one of the
\* straight-line-to-destination fallback.
C8_FallbackWhenNoPath ==
  Simulated =>
    /\ "currentPosition" \in DOMAIN lastCall.update
    /\ NoKeyMatches(lastCall.truck.route) =>
         \E r2 \in 0..999 :
           lastCall.update = FallbackMovement(lastCall.truck, lastCall.r1, r2)

\* C1: while the simulation is active, every firing of the timer applies one
\* simulation step to every truck whose status is moving, within that firing,
\* and leaves every truck with another status unchanged.
C1_TimerStepsMovingTrucks ==
  [][ TimerFires =>
        \A i \in DOMAIN trucks :
          IF trucks[i].status = "moving"
          THEN \E r1 \in 0..999, r2 \in SecondDraws :
                 trucks'[i] = MergeUpdate(trucks[i],
                                          simulateRealisticMovement(trucks[i], r1, r2))
          ELSE trucks'[i] = trucks[i] ]_vars

\* the predicates of the filter criteria, one by one; a predicate that is
\* absent, an empty string or an empty list excludes no truck
GivenText(f, k) == k \in DOMAIN f /\ Len(f[k]) > 0
GivenString(f, k) == k \in DOMAIN f /\ f[k] # ""
Member(x, s) == x \in {s[i] : i \in DOMAIN s}

Satisfies(truck, f) ==
  /\ GivenString(f, "origin") => truck.origin.name = f.origin
  /\ GivenString(f, "destination") => truck.destination.name = f.destination
  /\ GivenText(f, "route") => truck.route = f.route
  /\ GivenText(f, "status") => Member(truck.status, f.status)
  /\ GivenText(f, "company") => Member(truck.company, f.company)
  /\ GivenText(f, "truckType") => Member(truck.truckType, f.truckType)
  /\ "hasAlerts" \in DOMAIN f => (f.hasAlerts <=> truck.alerts # << >>)
  /\ GivenText(f, "alertTypes") =>
       \E a \in DOMAIN truck.alerts : Member(truck.alerts[a].type, f.alertTypes)

C9_StatusFrame ==
  [][ \A i \in DOMAIN trucks :
        (i \in DOMAIN trucks' /\ trucks'[i].status # trucks[i].status) =>
          \/ \E s \in TruckStatus : updateTruckStatus(trucks[i].id, s)
          \/ TimerFires /\ trucks'[i].status = "completed" ]_vars

\* C9 witness: a truck's status was assigned, and its position was animated,
\* an alert was added and the timer has fired
C9_Witness ==
  /\ trucks[1].status = "completed"
  /\ trucks[1].currentPosition.timestamp = IsoNow
  /\ trucks[1].alerts # << >>
  /\ uncaught # Null

\* C10: removeAlert(truckId, alertId) removes from the alerts of truck truckId
\* exactly the alerts whose id is alertId, keeps the others in their order, and
\* changes the alerts of no other truck.
C10_RemoveAlertById ==
  [][ \A id \in TruckIdInputs, alertId \in AlertIdInputs :
        removeAlert(id, alertId) =>
          \A i \in DOMAIN trucks :
            LET Other(alert) == alert.id # alertId
            IN  trucks'[i].alerts =
                  IF trucks[i].id = id THEN SelectSeq(trucks[i].alerts, Other)
                  ELSE trucks[i].alerts ]_vars

\* C11: every alert generateRandomEvent produces for a truck carries the truck's
\* id; a speed alert is a warning when the speed is above 100 km/h and an info
\* otherwise, a fuel alert is a warning when the fuel is below 30 and an info
\* otherwise; no alert has another type, and none is critical.
C11_EventSeverity ==
  lastCall.op = "generateRandomEvent" =>
    \A i \in DOMAIN lastCall.events :
      LET alert == lastCall.events[i]
          truck == lastCall.truck
      IN  /\ alert.truckId = truck.id
          /\ alert.type \in {"speed", "fuel"}
          /\ alert.severity \in {"warning", "info"}
          /\ alert.type = "speed" =>
                (alert.severity = "warning" <=> truck.speed > 100000)
          /\ alert.type = "fuel" =>
                (alert.severity = "warning" <=> truck.fuel < 30)

\* C11 witness: a truck at exactly 100 km/h with fuel at exactly 30 got both
\* alerts, both of severity info
C11_Witness ==
  /\ lastCall.op = "generateRandomEvent"
  /\ lastCall.truck.speed = 100000 /\ lastCall.truck.fuel = 30
  /\ Len(lastCall.events) = 2
  /\ \A i \in 1..2 : lastCall.events[i].severity = "info"

\* the trucks of the store with a given status, and the alerts of the store of
\* a given type and severity, as sets of positions
TrucksWithStatus(s) == {i \in DOMAIN trucks : trucks[i].status = s}
AlertsAt(types, severities) ==
  {ij \in UNION {{<<i, j>> : j \in DOMAIN trucks[i].alerts} : i \in DOMAIN trucks} :
     /\ trucks[ij[1]].alerts[ij[2]].type \in types
     /\ trucks[ij[1]].alerts[ij[2]].severity \in severities}
Severity == {"critical", "warning", "info"}

RECURSIVE SumOver(_, _)
SumOver(S, f) ==
  IF S = {} THEN 0
  ELSE LET x == CHOOSE y \in S : TRUE IN f[x] + SumOver(S \ {x}, f)

\* C12: useTruckStats reports total = number of trucks, for each of the five
\* status values the number of trucks with that status, and withAlerts = number
\* of trucks with at least one alert; the per-status counts add up to total.
C12_StatsPerStatus ==
  LET stats == useTruckStats
  IN  /\ stats.total = Len(trucks)
      /\ stats.withAlerts = Cardinality({i \in DOMAIN trucks : trucks[i].alerts # << >>})
      /\ \A s \in TruckStatus :
           s \in DOMAIN stats /\ stats[s] = Cardinality(TrucksWithStatus(s))
      /\ SumOver(TruckStatus \cap DOMAIN stats, stats) = stats.total

\* C13: useAlertStats gives for each of the 7 categories the number of alerts of
\* the category over all trucks, equal to critical + warning + info, each
\* severity counter the number of alerts of the category and severity, and the
\* counts add up to the number of alerts; a category without alert is all zero.
C13_AlertStatsExact ==
  LET stats == useAlertStats
  IN  /\ DOMAIN stats = AlertType
      /\ \A type \in AlertType :
           /\ stats[type].count = Cardinality(AlertsAt({type}, Severity))
           /\ stats[type].count
                = stats[type].critical + stats[type].warning + stats[type].info
           /\ \A sev \in Severity :
                stats[type][sev] = Cardinality(AlertsAt({type}, {sev}))
           /\ AlertsAt({type}, Severity) = {} =>
                stats[type] = [count |-> 0, critical |-> 0, warning |-> 0, info |-> 0]
      /\ SumOver(AlertType, [type \in AlertType |-> stats[type].count])
           = Cardinality(AlertsAt(AlertType, Severity))

\* C13 witness: one truck has a fuel warning, the other a critical speed alert
C13_Witness ==
  /\ Len(trucks) = 2
  /\ AlertsAt({"fuel"}, {"warning"}) = {<<1, 1>>}
  /\ AlertsAt({"speed"}, {"critical"}) = {<<2, 1>>}
  /\ useAlertStats.fuel = [count |-> 1, critical |-> 0, warning |-> 1, info |-> 0]
  /\ useAlertStats.lock.count = 0

\* C14: useSelectedTruck is the current record of the truck whose id is
\* ui.selectedTruckId when there is one, and null when the selection was cleared
\* or is the id of no truck; selecting an id, known or not, raises no error and
\* changes no truck.
C14_SelectedTruck ==
  /\ [](LET selected == {i \in DOMAIN trucks : trucks[i].id = ui.selectedTruckId}
        IN  IF selected = {} THEN IsNull(useSelectedTruck)
            ELSE \E i \in selected : useSelectedTruck = trucks[i])
  /\ [][\A id \in ViewSelectInputs :
          selectTruck(id) => trucks' = trucks /\ uncaught' = uncaught /\ error' = error]_vars

\* C14 witness: the id of no truck is selected, after the trucks were updated
C14_Witness ==
  /\ ui.selectedTruckId = "T9"
  /\ trucks # << >>
  /\ trucks[1].status = "delayed"
  /\ trucks[1].alerts # << >>
  /\ IsNull(useSelectedTruck)

\* r is t with some of its elements left out
RECURSIVE IsSubsequence(_, _)
IsSubsequence(r, t) ==
  IF r = << >> THEN TRUE
  ELSE IF t = << >> THEN FALSE
  ELSE IF r[1] = t[1] THEN IsSubsequence(Tail(r), Tail(t))
  ELSE IsSubsequence(r, Tail(t))

\* C15: the list useFilteredTrucks returns is a subsequence of the truck
\* collection: no truck that is not in the collection, no truck twice, and the
\* matching trucks in the order they have in the collection.
C15_FilteredSubsequence ==
  LET r == useFilteredTrucks
  IN  /\ \A i \in DOMAIN r : \E j \in DOMAIN trucks : r[i] = trucks[j]
      /\ \A i, j \in DOMAIN r : r[i] = r[j] => i = j
      /\ IsSubsequence(r, trucks)

\* C15 witness: of the trucks moving, stopped, moving, the filter status
\* ['moving'] gives the first and the third, in that order
C15_Witness ==
  /\ Len(trucks) = 3
  /\ [i \in 1..3 |-> trucks[i].status] = <<"moving", "stopped", "moving">>
  /\ DOMAIN filters = {"status"} /\ filters.status = <<"moving">>
  /\ useFilteredTrucks = <<trucks[1], trucks[3]>>

\* C16: on an empty truck collection useTruckStats gives averageSpeed 0 and all
\* counts 0, and useFilteredTrucks gives the empty list whatever the criteria;
\* on a non-empty collection averageSpeed is the sum of the speeds divided by
\* the number of trucks.
C16_EmptyCollectionSafe ==
  LET stats == useTruckStats
  IN  IF trucks = << >>
      THEN /\ stats.averageSpeed = 0
           /\ \A k \in DOMAIN stats : stats[k] = 0
           /\ useFilteredTrucks = << >>
      ELSE stats.averageSpeed
             = SumOver(DOMAIN trucks, [i \in DOMAIN trucks |-> trucks[i].speed])
                 \div Len(trucks)

\* C16 witness: no truck, and criteria with several predicates
C16_Witness ==
  /\ trucks = << >>
  /\ {"status", "hasAlerts", "origin"} \subseteq DOMAIN filters
  /\ filters.status # << >> /\ filters.origin # ""
  /\ useTruckStats.averageSpeed = 0
  /\ useFilteredTrucks = << >>

\* C17: when loading the fixture fails, loadTrucks ends with error set to a
\* message, isLoading false and the trucks as they were before the call, and
\* no load is in flight afterwards unless loadTrucks is called again.
C17_LoadFailure ==
  [][ /\ \A e \in LoadErrors :
           loadTrucksFailed(e) =>
             /\ error' # Null /\ error' # ""
             /\ isLoading' = FALSE
             /\ trucks' = lastCall.before
             /\ ~LoadAwaiting'
      /\ (LoadAwaiting' /\ ~LoadAwaiting) => loadTrucks ]_vars

\* C17 witness: a load has failed
C17_Witness ==
  /\ lastCall.op = "loadTrucks" /\ lastCall.phase = "failed"
  /\ error = "Failed to load trucks"
  /\ isLoading = FALSE
  /\ trucks = << >>

IdsOf(trs) == [i \in DOMAIN trs |-> trs[i].id]

\* C18: trucks are never deleted or duplicated: after any sequence of store
\* actions the ids of the trucks of the store are the ids of the loaded
\* fixture, in the same order.
C18_TrucksKept == IdsOf(trucks) = IdsOf(saudiTrucksData)

\* C18 witness: every kind of truck update has acted, and an animation is running
C18_Witness ==
  /\ trucks[1].status = "completed"
  /\ trucks[2].currentPosition.lat = 245247
  /\ trucks[2].alerts # << >>
  /\ animations # << >>
  /\ IdsOf(trucks) = <<"T1", "T2">>

OnSegment(p, a, b) ==
  LET tol == 3
      dx == b.lng - a.lng
      dy == b.lat - a.lat
      px == p.lng - a.lng
      py == p.lat - a.lat
  IN  /\ Min(a.lng, b.lng) - tol <= p.lng /\ p.lng <= Max(a.lng, b.lng) + tol
      /\ Min(a.lat, b.lat) - tol <= p.lat /\ p.lat <= Max(a.lat, b.lat) + tol
      /\ Abs(dx * py - dy * px) <= tol * (Abs(dx) + Abs(dy))

\* p is between two consecutive waypoints of the highway
OnPath(p, highway) ==
  \E i \in 1..(Len(WaypointsOf(highway)) - 1) :
    OnSegment(p, WaypointsOf(highway)[i], WaypointsOf(highway)[i + 1])

\* C20: a tick takes a truck that is between two consecutive waypoints of its
\* path to a position between two consecutive waypoints of its path.
C20_StaysOnPath ==
  (Simulated /\ OnPath(lastCall.truck.currentPosition, lastCall.highway))
    => OnPath(trucks[1].currentPosition, lastCall.highway)

\* C21: at any moment at most one loadTrucks invocation is in flight, for every
\* interleaving of loadTrucks calls with the other store actions.
C21_OneLoadInFlight == LoadsInFlight <= 1

C25_AnimationEndsAtTarget ==
  [][ updateAnimations =>
        \A a \in DOMAIN animations, t \in DOMAIN trucks :
          (/\ animations[a].isActive
           /\ animations[a].truckId = trucks[t].id
           /\ now >= animations[a].startTime + animations[a].duration)
            => /\ trucks'[t].currentPosition.lat = animations[a].targetPosition.lat
               /\ trucks'[t].currentPosition.lng = animations[a].targetPosition.lng ]_vars

\* C26: the animation list holds at most one animation per truck id, and after
\* every updateAnimations call every animation of the list is active with a
\* progress in [0, 1).
C26_AnimationsWellFormed ==
  /\ [](\A i, j \in DOMAIN animations :
          animations[i].truckId = animations[j].truckId => i = j)
  /\ [][ updateAnimations =>
           \A i \in DOMAIN animations' :
             /\ animations'[i].isActive
             /\ 0 <= animations'[i].progress /\ animations'[i].progress < 1000 ]_vars

\* C26 witness: two trucks are animated, one restarted, both advanced half way
C26_Witness ==
  /\ Len(animations) = 2
  /\ animations[1].truckId = "T2" /\ animations[2].truckId = "T1"
  /\ animations[1].progress = 500 /\ animations[2].progress = 500

\* C27: generateRandomEvent decides both alerts from one draw: its result is no
\* alert, a speed alert alone, or a speed alert followed by a fuel alert; a
\* fuel alert is never returned without a speed alert.
C27_FuelOnlyWithSpeed ==
  lastCall.op = "generateRandomEvent" =>
    LET types == [i \in DOMAIN lastCall.events |-> lastCall.events[i].type]
    IN  /\ types \in {<< >>, <<"speed">>, <<"speed", "fuel">>}
        /\ types = <<"speed", "fuel">> <=> lastCall.random < 20
        /\ types = <<"speed">> <=> (20 <= lastCall.random /\ lastCall.random < 50)

\* C27 witness: a draw between the two thresholds gave a speed alert alone
C27_Witness ==
  /\ lastCall.op = "generateRandomEvent"
  /\ lastCall.random = 20
  /\ Len(lastCall.events) = 1
  /\ lastCall.events[1].type = "speed"

\* the last waypoint of the path the truck's route label resolves to
LastWaypoint(truck) ==
  LET wps == WaypointsOf(ResolveHighway(truck.route)) IN wps[Len(wps)]

AtLastWaypoint(truck) ==
  /\ truck.currentPosition.lat = LastWaypoint(truck).lat
  /\ truck.currentPosition.lng = LastWaypoint(truck).lng

Rerouted(truck, origin, destination) ==
  [truck EXCEPT !.origin = origin, !.destination = destination]

SameMovement(u, v) ==
  /\ DOMAIN u = DOMAIN v
  /\ u.currentPosition.lat = v.currentPosition.lat
  /\ u.currentPosition.lng = v.currentPosition.lng
  /\ u.heading = v.heading
  /\ u.speed = v.speed

\* the update heads for waypoint j (0-based) of the path: it snaps to it or
\* moves towards it
HeadsFor(truck, update, waypoint) ==
  /\ update.heading = calculateBearing(truck.currentPosition, waypoint)
  /\ \/ /\ update.currentPosition.lat = waypoint.lat
        /\ update.currentPosition.lng = waypoint.lng
     \/ /\ calculateDistance(truck.currentPosition, waypoint) > 0
        /\ LET moved == MoveTowards(truck.currentPosition, waypoint,
                                    update.speed \div 30,
                                    calculateDistance(truck.currentPosition, waypoint))
           IN  /\ update.currentPosition.lat = moved.lat
               /\ update.currentPosition.lng = moved.lng

\* C29: in the highway branch the update does not depend on the truck's origin
\* or destination (the same truck with any other origin and destination gets
\* the same position, heading and speed for the same traffic factor), and the
\* waypoint the update heads for has an index not below the nearest waypoint's.
C29_OriginDestinationIgnored ==
  (Simulated /\ ~IsNull(lastCall.nearest)) =>
    /\ \A o \in {Riyadh, Jeddah, Dammam}, d \in {Riyadh, Jeddah, Dammam} :
         SameMovement(simulateRealisticMovement(Rerouted(lastCall.truck, o, d),
                                                lastCall.r1, 500),
                      lastCall.update)
    /\ LET wps == WaypointsOf(lastCall.highway)
       IN  \E j \in (lastCall.nearest.index + 1)..Len(wps) :
             HeadsFor(lastCall.truck, lastCall.update, wps[j])

\* C29 witness: a truck bound for Jeddah at Dammam on Highway_50, whose path
\* ends in Yanbu, has moved on towards Al-Hofuf
C29_Witness ==
  /\ Simulated
  /\ lastCall.highway = "Highway_50"
  /\ lastCall.truck.destination = Jeddah
  /\ lastCall.truck.currentPosition.lat = AtDammam.lat
  /\ lastCall.nearest.index = 0
  /\ lastCall.update.currentPosition.lat < AtDammam.lat

\* the keys a partial names, with a value or with undefined
KeysOf(partial) == DOMAIN partial.vals \cup partial.undef

\* after is before with exactly the keys of the partial overwritten
Overwritten(before, after, partial) ==
  /\ \A k \in DOMAIN partial.vals : k \in DOMAIN after /\ after[k] = partial.vals[k]
  /\ \A k \in partial.undef \ DOMAIN partial.vals : k \notin DOMAIN after
  /\ \A k \in (DOMAIN before \cup DOMAIN after) \ KeysOf(partial) :
       /\ k \in DOMAIN before /\ k \in DOMAIN after
       /\ after[k] = before[k]

OutsideFilters ==
  <<trucks, ui, animations, isLoading, error, lastUpdate, simulationActive,
    uncaught, now, lastCall, steps>>

====
